---- MODULE Spec2Model ----
(***************************************************************************)
(* A model of src/bitmap.py: the Bitmap entity with its lazily             *)
(* materialized crop box, the single-use _BitmapTools channel to the       *)
(* external bitmaptools engine, and the colour comparison helpers.         *)
(*                                                                         *)
(* A Bitmap is a record of its private fields; every method is an operator *)
(* from the receiver (and the engine's answer) to the receiver afterwards, *)
(* the value returned or error raised, and the channels it opened.  The    *)
(* actions apply the methods to the one Bitmap held in the state.          *)
(***************************************************************************)
EXTENDS Integers, Sequences, FiniteSets, TLC

\* ------------------------------------------------------------------ bounds
\* Width and height of the constructed bitmap, and the number of CROP_PIXELS
\* requests of the bitmap's reads the engine may fail to answer in full.
MaxWidth == 2
MaxHeight == 2
MaxFaults == 1
\* The number of calls a caller makes on the bitmap and on the channel it holds.
MaxCalls == 3

\* Buckets of the count sequences given to HistogramDistance, and the largest
\* count in a bucket.
HistLen == 2
MaxCount == 3

\* ------------------------------------------------------- program constants
CROP_PIXELS == 0
HISTOGRAM == 1
BOUNDING_BOX == 2
\* struct.calcsize('i')
IntSize == 4
\* number of int32 counts a HISTOGRAM answer must decode to
HistogramInts == 768
\* number of int32 values of struct.unpack('iiiii', ...)
BoundingBoxInts == 5

\* None, for an optional tuple (crop box, colour, bounding box)
None == <<>>

Max(a, b) == IF a >= b THEN a ELSE b
Abs(a) == IF a >= 0 THEN a ELSE 0 - a

\* Buckets of one channel of a ColorHistogram
Buckets == 256

\* Significant bits of a Python float (IEEE 754 binary64)
MantissaBits == 53

\* --------------------------------------------------------------- RgbaColor
\* RgbaColor(r, g, b, a=255) as the tuple <<r, g, b, a>>
RgbaColor(r, g, b, a) == <<r, g, b, a>>

WHITE == RgbaColor(255, 255, 255, 255)

\* RgbaColor.__int__
RgbaColor_int(c) == c[1] * 65536 + c[2] * 256 + c[3]

\* RgbaColor.IsEqual(expected_color, tolerance)
RgbaColor_IsEqual(c, expected_color, tolerance) ==
  LET r_diff == Abs(c[1] - expected_color[1])
      g_diff == Abs(c[2] - expected_color[2])
      b_diff == Abs(c[3] - expected_color[3])
      a_diff == Abs(c[4] - expected_color[4])
  IN  /\ r_diff <= tolerance /\ g_diff <= tolerance
      /\ b_diff <= tolerance /\ a_diff <= tolerance

\* ------------------------------------------------------ the external engine
\* What the engine may do with a request: answer in full ("ok"), exit
\* without writing a length ("empty"), or write the length and then fewer
\* payload bytes than it declares ("short1", "short4": 1 or 4 bytes fewer).
Responses == {"ok", "empty", "short1", "short4"}

Deficit(resp) == CASE resp = "short1" -> 1 [] resp = "short4" -> 4 [] OTHER -> 0

\* The boxed sub-rectangle of the transmitted buffer, row-major.
Engine_CropPixels(dims, pixels) ==
  LET bpp == dims[1]
      W == dims[2]
      left == dims[4]
      top == dims[5]
      w == dims[6]
      h == dims[7]
      n == IF w > 0 /\ h > 0 THEN bpp * w * h ELSE 0
  IN  [i \in 1..n |->
         LET k == i - 1
             c == k % bpp
             x == (k \div bpp) % w
             y == (k \div bpp) \div w
         IN  pixels[bpp * ((top + y) * W + left + x) + c + 1]]

\* The boxed sub-rectangle lies within the bytes transmitted.  A CROP_PIXELS
\* request for bytes the engine never received cannot be answered: the engine
\* exits without writing a length.
Engine_CanCrop(dims, pixels) ==
  \/ dims[6] <= 0
  \/ dims[7] <= 0
  \/ /\ dims[1] > 0 /\ dims[2] > 0 /\ dims[4] >= 0 /\ dims[5] >= 0
     /\ dims[4] + dims[6] <= dims[2]
     /\ dims[1] * ((dims[5] + dims[7] - 1) * dims[2] + dims[4] + dims[6]) <= Len(pixels)

\* struct.pack('i', v): two's-complement native (little-endian) bytes of one
\* int32; m is v without its sign bit.
Pack32(v) ==
  LET m == IF v >= 0 THEN v ELSE (v + 2147483647) + 1
  IN  <<m % 256, (m \div 256) % 256, (m \div 65536) % 256,
        (m \div 16777216) + (IF v >= 0 THEN 0 ELSE 128)>>

\* struct.unpack('i', ...) of four bytes
Unpack32(bs) ==
  LET m == bs[1] + 256 * bs[2] + 65536 * bs[3] + 16777216 * (bs[4] % 128)
  IN  IF bs[4] >= 128 THEN (m - 2147483647) - 1 ELSE m

\* The bounding boxes the engine is taken to answer with: one match, or none
\* (negative width and height).
BoxAnswers == {<<0, 0, 1, 1, 1>>, <<0, 0, -1, -1, 0>>}

Engine_BoundingBox(answer) ==
  Pack32(answer[1]) \o Pack32(answer[2]) \o Pack32(answer[3])
    \o Pack32(answer[4]) \o Pack32(answer[5])

\* The full answer to a request: the number of payload bytes the length
\* prefix declares and the payload.  The 3072 bytes of a HISTOGRAM answer are
\* counted, their contents are not modelled.
Engine(dims, pixels, command, answer) ==
  CASE command[1] = CROP_PIXELS ->
         LET p == Engine_CropPixels(dims, pixels)
         IN  [length |-> Len(p), data |-> p]
    [] command[1] = HISTOGRAM ->
         [length |-> HistogramInts * IntSize, data |-> <<>>]
    [] OTHER ->
         LET p == Engine_BoundingBox(answer)
         IN  [length |-> Len(p), data |-> p]

\* What stdout.read(length) returns of a full answer under `resp`: the bytes
\* read (nread) and, where modelled, their contents.
Deliver(full, resp) ==
  LET m == Max(0, full.length - Deficit(resp))
  IN  [nread |-> m,
       data |-> IF Len(full.data) > m THEN SubSeq(full.data, 1, m) ELSE full.data]

\* ------------------------------------------------------------ _BitmapTools
\* _BitmapTools.__init__: a new channel with the geometry and the pixels
\* written to it.  log lists what was done on the channel, frames the command
\* frames written, closed is stdin.closed; answered notes what the engine
\* did: "none" yet, "empty", "short" or "full".
BitmapTools_init(dimensions, pixels) ==
  [dims |-> dimensions,
   pixels |-> pixels,
   log |-> <<"write_dims", "write_pixels">>,
   frames |-> <<>>,
   closed |-> FALSE,
   answered |-> "none"]

\* The two assertion failures of _BitmapTools
ReuseError == "AssertionError: Exactly one command allowed per instance of tools."

BucketsError == "AssertionError: The ColorHistogram has the wrong number of buckets"

\* _RunCommand without the assertion that stdin is open
BitmapTools_RunCommand_unguarded(t, command, resp, answer) ==
  LET full == Engine(t.dims, t.pixels, command, answer)
      got == Deliver(full, resp)
      t1 == [t EXCEPT !.log = @ \o <<"write_cmd", "close_stdin", "read_len">>,
                      !.frames = Append(@, command),
                      !.closed = TRUE]
  IN  IF resp = "empty" \/ (command[1] = CROP_PIXELS /\ ~Engine_CanCrop(t.dims, t.pixels))
      THEN [tools |-> [t1 EXCEPT !.log = Append(@, "read_stderr"), !.answered = "empty"],
            err |-> "Exception",
            response |-> [nread |-> 0, data |-> <<>>]]
      ELSE [tools |-> [t1 EXCEPT !.log = Append(@, "read_payload"),
                                 !.answered = IF got.nread < full.length
                                              THEN "short" ELSE "full"],
            err |-> "",
            response |-> got]

\* _RunCommand that never closes stdin
BitmapTools_RunCommand_unclosed(t, command, resp, answer) ==
  LET full == Engine(t.dims, t.pixels, command, answer)
      got == Deliver(full, resp)
      t1 == [t EXCEPT !.log = @ \o <<"write_cmd", "read_len">>,
                      !.frames = Append(@, command)]
  IN  IF resp = "empty" \/ (command[1] = CROP_PIXELS /\ ~Engine_CanCrop(t.dims, t.pixels))
      THEN [tools |-> [t1 EXCEPT !.log = Append(@, "read_stderr"), !.answered = "empty"],
            err |-> "Exception",
            response |-> [nread |-> 0, data |-> <<>>]]
      ELSE [tools |-> [t1 EXCEPT !.log = Append(@, "read_payload"),
                                 !.answered = IF got.nread < full.length
                                              THEN "short" ELSE "full"],
            err |-> "",
            response |-> got]

\* _BitmapTools._RunCommand(*command)
BitmapTools_RunCommand(t, command, resp, answer) ==
  IF t.closed
  THEN [tools |-> t, err |-> ReuseError, response |-> [nread |-> 0, data |-> <<>>]]
  ELSE LET full == Engine(t.dims, t.pixels, command, answer)
           got == Deliver(full, resp)
           t1 == [t EXCEPT !.log = @ \o <<"write_cmd", "close_stdin", "read_len">>,
                           !.frames = Append(@, command),
                           !.closed = TRUE]
       IN  IF resp = "empty" \/ (command[1] = CROP_PIXELS /\ ~Engine_CanCrop(t.dims, t.pixels))
           THEN [tools |-> [t1 EXCEPT !.log = Append(@, "read_stderr"), !.answered = "empty"],
                 err |-> "Exception",
                 response |-> [nread |-> 0, data |-> <<>>]]
           ELSE [tools |-> [t1 EXCEPT !.log = Append(@, "read_payload"),
                                      !.answered = IF got.nread < full.length
                                                   THEN "short" ELSE "full"],
                 err |-> "",
                 response |-> got]

\* _BitmapTools.CropPixels()
BitmapTools_CropPixels(t, resp) ==
  LET r == BitmapTools_RunCommand(t, <<CROP_PIXELS>>, resp, None)
  IN  [tools |-> r.tools, err |-> r.err, value |-> r.response.data]

\* _BitmapTools.Histogram, from the response on: r is what _RunCommand
\* yields.  The value is the number of buckets of the r, g and b fields of
\* the ColorHistogram returned.
BitmapTools_Histogram_decode(r) ==
  LET n == r.response.nread
  IN  IF r.err # "" THEN [tools |-> r.tools, err |-> r.err, value |-> None]
      ELSE IF n % IntSize # 0 THEN [tools |-> r.tools, err |-> "ValueError", value |-> None]
      ELSE IF n \div IntSize # HistogramInts
           THEN [tools |-> r.tools, err |-> BucketsError, value |-> None]
      ELSE [tools |-> r.tools, err |-> "", value |-> <<256, 256, n \div IntSize - 512>>]

\* _BitmapTools.Histogram(ignore_color, tolerance)
BitmapTools_Histogram(t, ignore_color, tolerance, resp) ==
  BitmapTools_Histogram_decode(
    BitmapTools_RunCommand(
      t,
      <<HISTOGRAM, IF ignore_color = None THEN -1 ELSE RgbaColor_int(ignore_color), tolerance>>,
      resp, None))

\* _BitmapTools.BoundingBox, from the response on: r is what _RunCommand yields
BitmapTools_BoundingBox_decode(r) ==
  LET d == r.response.data
      unpacked == [i \in 1..BoundingBoxInts |->
                     Unpack32(SubSeq(d, IntSize * (i - 1) + 1, IntSize * i))]
      box == SubSeq(unpacked, 1, 4)
      count == unpacked[BoundingBoxInts]
  IN  IF r.err # "" THEN [tools |-> r.tools, err |-> r.err, value |-> None]
      ELSE IF r.response.nread # BoundingBoxInts * IntSize
           THEN [tools |-> r.tools, err |-> "struct.error", value |-> None]
      ELSE [tools |-> r.tools, err |-> "",
            value |-> <<IF box[3] < 0 \/ box[4] < 0 THEN None ELSE box, count>>]

\* _BitmapTools.BoundingBox(color, tolerance)
BitmapTools_BoundingBox(t, color, tolerance, resp, answer) ==
  BitmapTools_BoundingBox_decode(
    BitmapTools_RunCommand(t, <<BOUNDING_BOX, RgbaColor_int(color), tolerance>>, resp, answer))

\* ------------------------------------------------------------------ Bitmap
\* Bitmap.__init__: the assertions a construction must pass
Bitmap_init_ok(bpp, width, height, pixels) ==
  /\ bpp \in {3, 4}
  /\ width > 0
  /\ height > 0
  /\ Len(pixels) > 0
  /\ bpp * width * height = Len(pixels)

\* Bitmap.__init__: the fields of a new Bitmap
Bitmap_init(bpp, width, height, pixels) ==
  [_bpp |-> bpp, _width |-> width, _height |-> height, _pixels |-> pixels,
   _crop_box |-> None]

\* Bitmap.width (property)
Bitmap_width(b) == IF b._crop_box # None THEN b._crop_box[3] ELSE b._width

\* Bitmap.height (property)
Bitmap_height(b) == IF b._crop_box # None THEN b._crop_box[4] ELSE b._height

\* Bitmap._PrepareTools()
Bitmap_PrepareTools(b) ==
  LET crop_box == IF b._crop_box # None THEN b._crop_box
                  ELSE <<0, 0, b._width, b._height>>
  IN  BitmapTools_init(<<b._bpp, b._width, b._height>> \o crop_box, b._pixels)

\* Bitmap.pixels that stores the cropped buffer and keeps the crop box
Bitmap_pixels_keeps_box(b, resp) ==
  IF b._crop_box # None
  THEN LET r == BitmapTools_CropPixels(Bitmap_PrepareTools(b), resp)
       IN  IF r.err # ""
           THEN [bitmap |-> b, err |-> r.err, value |-> None, chans |-> <<r.tools>>]
           ELSE [bitmap |-> [b EXCEPT !._pixels = r.value],
                 err |-> "", value |-> r.value, chans |-> <<r.tools>>]
  ELSE [bitmap |-> b, err |-> "", value |-> b._pixels, chans |-> <<>>]

\* Bitmap.pixels after CropPixels, taking the box's height for the width and
\* its width for the height
Bitmap_pixels_assign_swapped(b, r) ==
  IF r.err # ""
  THEN [bitmap |-> b, err |-> r.err, value |-> None, chans |-> <<r.tools>>]
  ELSE [bitmap |-> [b EXCEPT !._pixels = r.value,
                             !._width = b._crop_box[4],
                             !._height = b._crop_box[3],
                             !._crop_box = None],
        err |-> "",
        value |-> r.value,
        chans |-> <<r.tools>>]

\* Bitmap.pixels after CropPixels, dropping the crop box when CropPixels
\* raised
Bitmap_pixels_assign_gives_up(b, r) ==
  IF r.err # ""
  THEN [bitmap |-> [b EXCEPT !._crop_box = None], err |-> r.err, value |-> None,
        chans |-> <<r.tools>>]
  ELSE [bitmap |-> [b EXCEPT !._pixels = r.value,
                             !._width = b._crop_box[3],
                             !._height = b._crop_box[4],
                             !._crop_box = None],
        err |-> "",
        value |-> r.value,
        chans |-> <<r.tools>>]

\* Bitmap.pixels, from the answer of CropPixels on: r is what CropPixels
\* yields.  Nothing is assigned when it raised.
Bitmap_pixels_assign(b, r) ==
  IF r.err # ""
  THEN [bitmap |-> b, err |-> r.err, value |-> None, chans |-> <<r.tools>>]
  ELSE [bitmap |-> [b EXCEPT !._pixels = r.value,
                             !._width = b._crop_box[3],
                             !._height = b._crop_box[4],
                             !._crop_box = None],
        err |-> "",
        value |-> r.value,
        chans |-> <<r.tools>>]

\* Bitmap.pixels (property): materializes a pending crop through one
\* CROP_PIXELS request, then returns the buffer.
Bitmap_pixels(b, resp) ==
  IF b._crop_box # None
  THEN Bitmap_pixels_assign(b, BitmapTools_CropPixels(Bitmap_PrepareTools(b), resp))
  ELSE [bitmap |-> b, err |-> "", value |-> b._pixels, chans |-> <<>>]

\* pixels[i] of a Python sequence: an index in -len..len-1, or "IndexError"
PyIndexOk(seq, i) == 0 - Len(seq) <= i /\ i < Len(seq)

PyIndex(seq, i) == IF i >= 0 THEN seq[i + 1] ELSE seq[Len(seq) + i + 1]

\* Bitmap.GetPixelColor, from the read of self.pixels on: p is what the
\* pixels property yields.
Bitmap_GetPixelColor_read(p, x, y) ==
  LET pixels == p.value
      base == p.bitmap._bpp * (y * p.bitmap._width + x)
      n == p.bitmap._bpp
  IN  IF p.err # "" THEN p
      ELSE IF \E c \in 0..(n - 1) : ~PyIndexOk(pixels, base + c)
           THEN [p EXCEPT !.err = "IndexError", !.value = None]
      ELSE IF n = 4
           THEN [p EXCEPT !.value = RgbaColor(PyIndex(pixels, base + 0), PyIndex(pixels, base + 1),
                                              PyIndex(pixels, base + 2), PyIndex(pixels, base + 3))]
      ELSE [p EXCEPT !.value = RgbaColor(PyIndex(pixels, base + 0), PyIndex(pixels, base + 1),
                                         PyIndex(pixels, base + 2), 255)]

\* Bitmap.GetPixelColor(x, y)
Bitmap_GetPixelColor(b, x, y, resp) ==
  Bitmap_GetPixelColor_read(Bitmap_pixels(b, resp), x, y)

\* Bitmap.Crop without the test of left
Bitmap_Crop_unchecked_left(b, left, top, width, height) ==
  LET cur_box == IF b._crop_box # None THEN b._crop_box
                 ELSE <<0, 0, b._width, b._height>>
  IN  IF \/ top < 0
         \/ (left + width) > cur_box[3]
         \/ (top + height) > cur_box[4]
      THEN [bitmap |-> b, err |-> "ValueError", value |-> None, chans |-> <<>>]
      ELSE [bitmap |-> [b EXCEPT !._crop_box = <<cur_box[1] + left, cur_box[2] + top,
                                                 width, height>>],
            err |-> "", value |-> "self", chans |-> <<>>]

\* Bitmap.Crop storing the box as given, not translated by the pending box
Bitmap_Crop_untranslated(b, left, top, width, height) ==
  LET cur_box == IF b._crop_box # None THEN b._crop_box
                 ELSE <<0, 0, b._width, b._height>>
  IN  IF \/ left < 0 \/ top < 0
         \/ (left + width) > cur_box[3]
         \/ (top + height) > cur_box[4]
      THEN [bitmap |-> b, err |-> "ValueError", value |-> None, chans |-> <<>>]
      ELSE [bitmap |-> [b EXCEPT !._crop_box = <<left, top, width, height>>],
            err |-> "", value |-> "self", chans |-> <<>>]

\* Bitmap.Crop that also takes the box's size for the backing size
Bitmap_Crop_resizing(b, left, top, width, height) ==
  LET cur_box == IF b._crop_box # None THEN b._crop_box
                 ELSE <<0, 0, b._width, b._height>>
  IN  IF \/ left < 0 \/ top < 0
         \/ (left + width) > cur_box[3]
         \/ (top + height) > cur_box[4]
      THEN [bitmap |-> b, err |-> "ValueError", value |-> None, chans |-> <<>>]
      ELSE [bitmap |-> [b EXCEPT !._crop_box = <<cur_box[1] + left, cur_box[2] + top,
                                                 width, height>>,
                                 !._width = width, !._height = height],
            err |-> "", value |-> "self", chans |-> <<>>]

\* Bitmap.Crop(left, top, width, height)
Bitmap_Crop(b, left, top, width, height) ==
  LET cur_box == IF b._crop_box # None THEN b._crop_box
                 ELSE <<0, 0, b._width, b._height>>
      cur_left == cur_box[1]
      cur_top == cur_box[2]
      cur_width == cur_box[3]
      cur_height == cur_box[4]
  IN  IF \/ left < 0 \/ top < 0
         \/ (left + width) > cur_width
         \/ (top + height) > cur_height
      THEN [bitmap |-> b, err |-> "ValueError", value |-> None, chans |-> <<>>]
      ELSE [bitmap |-> [b EXCEPT !._crop_box = <<cur_left + left, cur_top + top, width, height>>],
            err |-> "", value |-> "self", chans |-> <<>>]

\* Bitmap.GetBoundingBox(color, tolerance)
Bitmap_GetBoundingBox(b, color, tolerance, resp, answer) ==
  LET r == BitmapTools_BoundingBox(Bitmap_PrepareTools(b), color, tolerance, resp, answer)
  IN  [bitmap |-> b, err |-> r.err, value |-> r.value, chans |-> <<r.tools>>]

\* Bitmap.ColorHistogram materializing a pending crop before it delegates
Bitmap_ColorHistogram_materializing(b, ignore_color, tolerance, resp) ==
  LET p == Bitmap_pixels(b, "ok")
      r == BitmapTools_Histogram(Bitmap_PrepareTools(p.bitmap), ignore_color, tolerance, resp)
  IN  [bitmap |-> p.bitmap, err |-> r.err, value |-> r.value, chans |-> <<r.tools>>]

\* Bitmap.ColorHistogram(ignore_color, tolerance)
Bitmap_ColorHistogram(b, ignore_color, tolerance, resp) ==
  LET r == BitmapTools_Histogram(Bitmap_PrepareTools(b), ignore_color, tolerance, resp)
  IN  [bitmap |-> b, err |-> r.err, value |-> r.value, chans |-> <<r.tools>>]

\* The pixel loop of Bitmap.IsEqual from pixel k on (row-major, y outer),
\* both bitmaps materialized: "True", "False", or the "IndexError" a lookup
\* raises first.  IsEqual_body is one pass of the loop body, c0 and c1 what
\* the two lookups yield.
RECURSIVE IsEqual_scan(_, _, _, _)
RECURSIVE IsEqual_body(_, _, _, _, _, _)
IsEqual_body(b, other, k, tolerance, c0, c1) ==
  IF c0.err # "" THEN c0.err
  ELSE IF c1.err # "" THEN c1.err
  ELSE IF ~RgbaColor_IsEqual(c0.value, c1.value, tolerance) THEN "False"
  ELSE IsEqual_scan(b, other, k + 1, tolerance)

IsEqual_scan(b, other, k, tolerance) ==
  IF k >= Bitmap_width(b) * Bitmap_height(b) THEN "True"
  ELSE IsEqual_body(b, other, k, tolerance,
                    Bitmap_GetPixelColor(b, k % Bitmap_width(b), k \div Bitmap_width(b), "ok"),
                    Bitmap_GetPixelColor(other, k % Bitmap_width(b), k \div Bitmap_width(b),
                                         "ok"))

\* What IsEqual returns or raises for the outcome s of the pixel loop on the
\* bitmaps c0 and c1 hold.
IsEqual_outcome(c0, c1, s) ==
  [bitmap |-> c0.bitmap, other |-> c1.bitmap,
   err |-> IF s \in {"True", "False"} THEN "" ELSE s,
   value |-> IF s \in {"True", "False"} THEN s = "True" ELSE None,
   chans |-> c0.chans \o c1.chans]

\* The pixel loop once its first two lookups, which materialize self and
\* other, have yielded c0 and c1.
Bitmap_IsEqual_looked(other, tolerance, c0, c1) ==
  IF c0.err # ""
  THEN [bitmap |-> c0.bitmap, other |-> other, err |-> c0.err,
        value |-> None, chans |-> c0.chans]
  ELSE IF c1.err # ""
  THEN [bitmap |-> c0.bitmap, other |-> c1.bitmap, err |-> c1.err,
        value |-> None, chans |-> c0.chans \o c1.chans]
  ELSE IsEqual_outcome(c0, c1, IsEqual_scan(c0.bitmap, c1.bitmap, 0, tolerance))

\* Bitmap.IsEqual, the pixel loop (tolerance given or bpp different): resp
\* and resp_other are the engine's answers to the materialization of self
\* and of other by the first lookups.
Bitmap_IsEqual_loop(b, other, tolerance, resp, resp_other) ==
  IF Bitmap_height(b) <= 0 \/ Bitmap_width(b) <= 0
  THEN [bitmap |-> b, other |-> other, err |-> "", value |-> TRUE, chans |-> <<>>]
  ELSE Bitmap_IsEqual_looked(other, tolerance,
                             Bitmap_GetPixelColor(b, 0, 0, resp),
                             Bitmap_GetPixelColor(other, 0, 0, resp_other))

\* Bitmap.IsEqual comparing the fields _pixels, which skips materialization
Bitmap_IsEqual_bytes_raw(b, other, resp, resp_other) ==
  [bitmap |-> b, other |-> other, err |-> "", value |-> b._pixels = other._pixels,
   chans |-> <<>>]

\* self.pixels == other.pixels, p0 and p1 what the two reads yield
Bitmap_IsEqual_read(other, p0, p1) ==
  IF p0.err # ""
  THEN [bitmap |-> p0.bitmap, other |-> other, err |-> p0.err,
        value |-> None, chans |-> p0.chans]
  ELSE IF p1.err # ""
  THEN [bitmap |-> p0.bitmap, other |-> p1.bitmap, err |-> p1.err,
        value |-> None, chans |-> p0.chans \o p1.chans]
  ELSE [bitmap |-> p0.bitmap, other |-> p1.bitmap, err |-> "",
        value |-> p0.value = p1.value, chans |-> p0.chans \o p1.chans]

\* Bitmap.IsEqual, the byte-for-byte path: self.pixels == other.pixels
Bitmap_IsEqual_bytes(b, other, resp, resp_other) ==
  Bitmap_IsEqual_read(other, Bitmap_pixels(b, resp), Bitmap_pixels(other, resp_other))

\* Bitmap.IsEqual(other, tolerance)
Bitmap_IsEqual(b, other, tolerance, resp, resp_other) ==
  IF Bitmap_width(b) # Bitmap_width(other) \/ Bitmap_height(b) # Bitmap_height(other)
  THEN [bitmap |-> b, other |-> other, err |-> "", value |-> FALSE, chans |-> <<>>]
  ELSE IF tolerance # 0 \/ b._bpp # other._bpp
  THEN Bitmap_IsEqual_loop(b, other, tolerance, resp, resp_other)
  ELSE Bitmap_IsEqual_bytes(b, other, resp, resp_other)

\* ------------------------------------------------------------- Bitmap.Diff
\* png.from_array(diff, mode='RGB'), save, and Bitmap.FromPng of the bytes
\* saved: the rows of the grid become the pixels of a new 3-bpp Bitmap, which
\* the constructor accepts or refuses.
Png_RoundTrip(diff) ==
  LET h == Len(diff)
      w == IF h > 0 THEN Len(diff[1]) \div 3 ELSE 0
      flat == [i \in 1..(3 * w * h) |->
                 diff[((i - 1) \div (3 * w)) + 1][((i - 1) % (3 * w)) + 1]]
  IN  IF Bitmap_init_ok(3, w, h, flat)
      THEN [err |-> "", value |-> Bitmap_init(3, w, h, flat)]
      ELSE [err |-> "AssertionError", value |-> None]

\* The colour Diff takes for one side at (x, y): the side's pixel where its
\* logical size contains (x, y), transparent black elsewhere.
Diff_side(bm, x, y) ==
  IF x < Bitmap_width(bm) /\ y < Bitmap_height(bm)
  THEN Bitmap_GetPixelColor(bm, x, y, "ok")
  ELSE [bitmap |-> bm, err |-> "", value |-> RgbaColor(0, 0, 0, 0), chans |-> <<>>]

\* diff[y][offset], diff[y][offset+1], diff[y][offset+2] for the colours c0, c1
Diff_channel(c0, c1, c) == Abs(c0[c] - c1[c])

\* The loop of Diff over the output grid, both sides looked up once already:
\* the grid written, re-read as a Bitmap, or the error a lookup raises.
Diff_render(b, other, chans, out_width, out_height) ==
  IF \E y \in 0..(out_height - 1), x \in 0..(out_width - 1) :
       Diff_side(b, x, y).err # "" \/ Diff_side(other, x, y).err # ""
  THEN [bitmap |-> b, other |-> other, err |-> "IndexError", value |-> None, chans |-> chans]
  ELSE [bitmap |-> b, other |-> other, chans |-> chans]
         @@ Png_RoundTrip(
              [y \in 1..out_height |->
                 [i \in 1..(out_width * 3) |->
                    Diff_channel(Diff_side(b, (i - 1) \div 3, y - 1).value,
                                 Diff_side(other, (i - 1) \div 3, y - 1).value,
                                 ((i - 1) % 3) + 1)]])

\* The first lookup of a side, which materializes its pending crop; a side
\* whose logical size does not contain (0, 0) is never looked up.
Diff_first(bm, resp) ==
  IF 0 < Bitmap_width(bm) /\ 0 < Bitmap_height(bm)
  THEN Bitmap_GetPixelColor(bm, 0, 0, resp)
  ELSE [bitmap |-> bm, err |-> "", value |-> RgbaColor(0, 0, 0, 0), chans |-> <<>>]

\* Diff once the lookups at (0, 0) have yielded c0 and c1
Bitmap_Diff_looked(other, c0, c1, out_width, out_height) ==
  IF c0.err # ""
  THEN [bitmap |-> c0.bitmap, other |-> other, err |-> c0.err,
        value |-> None, chans |-> c0.chans]
  ELSE IF c1.err # ""
  THEN [bitmap |-> c0.bitmap, other |-> c1.bitmap, err |-> c1.err,
        value |-> None, chans |-> c0.chans \o c1.chans]
  ELSE Diff_render(c0.bitmap, c1.bitmap, c0.chans \o c1.chans, out_width, out_height)

\* Bitmap.Diff(other), other a different object
Bitmap_Diff(b, other, resp, resp_other) ==
  LET out_width == Max(Bitmap_width(b), Bitmap_width(other))
      out_height == Max(Bitmap_height(b), Bitmap_height(other))
  IN  IF out_width <= 0 \/ out_height <= 0
      THEN Diff_render(b, other, <<>>, out_width, out_height)
      ELSE Bitmap_Diff_looked(other, Diff_first(b, resp), Diff_first(other, resp_other),
                              out_width, out_height)

\* Diff of a bitmap against itself once the first lookup has yielded c0: the
\* second lookup finds the crop materialized.
Bitmap_Diff_self_looked(c0, out_width, out_height) ==
  IF c0.err # ""
  THEN [bitmap |-> c0.bitmap, other |-> c0.bitmap, err |-> c0.err,
        value |-> None, chans |-> c0.chans]
  ELSE Diff_render(c0.bitmap, c0.bitmap, c0.chans, out_width, out_height)

\* Bitmap.Diff(self)
Bitmap_Diff_self(b, resp) ==
  IF Bitmap_width(b) <= 0 \/ Bitmap_height(b) <= 0
  THEN Diff_render(b, b, <<>>, Bitmap_width(b), Bitmap_height(b))
  ELSE Bitmap_Diff_self_looked(Diff_first(b, resp), Bitmap_width(b), Bitmap_height(b))

\* ------------------------------------------------------------ Python float
\* A non-negative float is [m, e]: m its MantissaBits significant bits, the
\* first of them 1 (most significant first), and e the exponent of the last
\* of them; zero has no bits.
Float_zero == [m |-> <<>>, e |-> 0]

ZeroBits(n) == [i \in 1..n |-> 0]

RECURSIVE BitsOfNat(_)
BitsOfNat(n) == IF n = 0 THEN <<>> ELSE Append(BitsOfNat(n \div 2), n % 2)

RECURSIVE StripZeros(_)
StripZeros(bits) ==
  IF bits # <<>> /\ bits[1] = 0 THEN StripZeros(Tail(bits)) ELSE bits

\* bits + 1: the ones at the end become zeros and the zero before them one
Increment(bits) ==
  IF \A i \in 1..Len(bits) : bits[i] = 1 THEN <<1>> \o ZeroBits(Len(bits))
  ELSE [i \in 1..Len(bits) |->
          IF \E j \in (i + 1)..Len(bits) : bits[j] = 0 THEN bits[i]
          ELSE 1 - bits[i]]

\* The carry out of the bits after the i-th in a + b + carry: a place where
\* both have a one, or the carry coming in, passed on by the places before
\* it where one of them has a one
CarryInto(a, b, carry, i) ==
  IF \/ \E j \in (i + 1)..Len(a) :
          /\ a[j] + b[j] = 2
          /\ \A k \in (i + 1)..(j - 1) : a[k] + b[k] = 1
     \/ carry = 1 /\ \A k \in (i + 1)..Len(a) : a[k] + b[k] = 1
  THEN 1 ELSE 0

\* a + b + carry for bit sequences of one length
AddBits(a, b, carry) ==
  [i \in 1..(Len(a) + 1) |->
     IF i = 1 THEN CarryInto(a, b, carry, 0)
     ELSE (a[i - 1] + b[i - 1] + CarryInto(a, b, carry, i - 1)) % 2]

\* The float nearest to bits * 2^e, plus a fraction of the last bit when
\* sticky: round to nearest, ties to even.  bits has no leading zero.
Float_round(bits, sticky, e) ==
  LET n == Len(bits)
      top == SubSeq(bits, 1, MantissaBits)
      up == /\ bits[MantissaBits + 1] = 1
            /\ \/ sticky
               \/ \E i \in (MantissaBits + 2)..n : bits[i] = 1
               \/ bits[MantissaBits] = 1
      inc == Increment(top)
  IN  IF n = 0 THEN Float_zero
      ELSE IF n <= MantissaBits
      THEN [m |-> bits \o ZeroBits(MantissaBits - n), e |-> e - (MantissaBits - n)]
      ELSE IF ~up THEN [m |-> top, e |-> e + n - MantissaBits]
      ELSE IF Len(inc) > MantissaBits
      THEN [m |-> SubSeq(inc, 1, MantissaBits), e |-> e + n - MantissaBits + 1]
      ELSE [m |-> inc, e |-> e + n - MantissaBits]

\* float(n) of a non-negative int
Float_fromInt(n) == Float_round(BitsOfNat(n), FALSE, 0)

\* One step of the long division of bits, continued with zeros, by the int
\* d > 0, after st: st.used bits used, st.rem the remainder so far, st.q the
\* quotient so far without its leading zeros; r2 is the remainder with the
\* next bit brought down.
Float_divisionStep_put(d, st, r2) ==
  [q |-> IF st.q = <<>> /\ r2 \div d = 0 THEN st.q ELSE Append(st.q, r2 \div d),
   rem |-> r2 % d, used |-> st.used + 1]

Float_divisionStep(bits, d, st) ==
  Float_divisionStep_put(d, st,
    2 * st.rem + (IF st.used < Len(bits) THEN bits[st.used + 1] ELSE 0))

\* n steps of the long division after st, the first half of them then the
\* second
RECURSIVE Float_divisionSteps(_, _, _, _)
RECURSIVE Float_divisionSteps_on(_, _, _, _)
Float_divisionSteps(bits, d, st, n) ==
  IF n <= 0 THEN st
  ELSE IF n = 1 THEN Float_divisionStep(bits, d, st)
  ELSE Float_divisionSteps_on(bits, d, Float_divisionSteps(bits, d, st, n \div 2),
                              n - n \div 2)

\* The steps going on once the steps before them gave st (a count of bits
\* used is never negative)
Float_divisionSteps_on(bits, d, st, n) ==
  IF st.used < 0 THEN st ELSE Float_divisionSteps(bits, d, st, n)

\* The steps of the long division up to the first one of the quotient
RECURSIVE Float_divisionStart(_, _, _)
Float_divisionStart(bits, d, st) ==
  IF st.q # <<>> THEN st ELSE Float_divisionStart(bits, d, Float_divisionStep(bits, d, st))

\* The steps that give the quotient one bit more than a float keeps
Float_divisionRest(bits, d, st) ==
  Float_divisionSteps(bits, d, st, MantissaBits + 1 - Len(st.q))

\* Long division of the bits, which start with a one, by the int d > 0: all
\* the bits are used, and then zeros until the quotient has one bit more
\* than a float keeps.
Float_longDivision(bits, d) ==
  Float_divisionRest(bits, d,
    Float_divisionStart(bits, d,
      Float_divisionSteps(bits, d, [q |-> <<>>, rem |-> 0, used |-> 0], Len(bits))))

\* The quotient r of the long division of x's bits, rounded
Float_quotient(x, r) == Float_round(r.q, r.rem # 0, x.e - (r.used - Len(x.m)))

\* x / d for a float x and an int d > 0: the exact quotient, rounded
Float_div(x, d) ==
  IF x.m = <<>> THEN x ELSE Float_quotient(x, Float_longDivision(x.m, d))

\* The sum of the bits bx and by, which end at the exponent e0, rounded
Float_sum(bx, by, e0) ==
  Float_round(
    StripZeros(AddBits(ZeroBits(Max(Len(bx), Len(by)) - Len(bx)) \o bx,
                       ZeroBits(Max(Len(bx), Len(by)) - Len(by)) \o by, 0)),
    FALSE, e0)

\* x + y
Float_add(x, y) ==
  IF x.m = <<>> THEN y
  ELSE IF y.m = <<>> THEN x
  ELSE Float_sum(x.m \o ZeroBits(x.e - (IF x.e < y.e THEN x.e ELSE y.e)),
                 y.m \o ZeroBits(y.e - (IF x.e < y.e THEN x.e ELSE y.e)),
                 IF x.e < y.e THEN x.e ELSE y.e)

\* ------------------------------------------------------- HistogramDistance
\* sum(hist) over the buckets lo..hi, by halves
RECURSIVE SumRange(_, _, _)
SumRange(hist, lo, hi) ==
  IF lo > hi THEN 0
  ELSE IF lo = hi THEN hist[lo]
  ELSE SumRange(hist, lo, (lo + hi) \div 2) + SumRange(hist, (lo + hi) \div 2 + 1, hi)

\* sum(hist)
Sum(hist) == SumRange(hist, 1, Len(hist))

\* The loop body of HistogramDistance adding the difference of the counts,
\* not scaled by the sums, to the remainder
HistogramDistance_step_unscaled(hist1, hist2, i, n1, n2, w) ==
  [remainder |-> w.remainder + hist1[i] - hist2[i],
   total |-> w.total + Abs(w.remainder + hist1[i] - hist2[i])]

\* The loop body of HistogramDistance at bucket i: w is the remainder and
\* the total before it
HistogramDistance_step(hist1, hist2, i, n1, n2, w) ==
  [remainder |-> w.remainder + hist1[i] * n2 - hist2[i] * n1,
   total |-> w.total + Abs(w.remainder + hist1[i] * n2 - hist2[i] * n1)]

\* The loop of HistogramDistance over the buckets lo..hi in order, the
\* first half then the second, from the remainder and the total w
RECURSIVE HistogramDistance_loop(_, _, _, _, _, _, _)
RECURSIVE HistogramDistance_loop_on(_, _, _, _, _, _, _)
HistogramDistance_loop(hist1, hist2, lo, hi, n1, n2, w) ==
  IF lo > hi THEN w
  ELSE IF lo = hi THEN HistogramDistance_step(hist1, hist2, lo, n1, n2, w)
  ELSE HistogramDistance_loop_on(hist1, hist2, (lo + hi) \div 2 + 1, hi, n1, n2,
         HistogramDistance_loop(hist1, hist2, lo, (lo + hi) \div 2, n1, n2, w))

\* The loop going on over lo..hi once the buckets before lo gave w (the
\* total, a sum of absolute values, is never negative)
HistogramDistance_loop_on(hist1, hist2, lo, hi, n1, n2, w) ==
  IF w.total < 0 THEN w ELSE HistogramDistance_loop(hist1, hist2, lo, hi, n1, n2, w)

SizesError == "ValueError: Trying to compare histograms of different sizes"

FirstEmptyError == "ValueError: First histogram has 0 pixels in it."

SecondEmptyError == "ValueError: Second histogram has 0 pixels in it."

LeftOverError == "AssertionError: pixel(s) left over after computing histogram distance."

\* HistogramDistance after its loop: w is what the loop yields
HistogramDistance_result(n1, n2, w) ==
  IF w.remainder # 0
  THEN [err |-> LeftOverError, value |-> None, remainder |-> w.remainder,
        total |-> w.total, n1 |-> n1, n2 |-> n2]
  ELSE [err |-> "", value |-> Float_div(Float_div(Float_fromInt(w.total), n1), n2),
        remainder |-> w.remainder, total |-> w.total, n1 |-> n1, n2 |-> n2]

\* HistogramDistance once the sums n1 and n2 are taken
HistogramDistance_summed(hist1, hist2, n1, n2) ==
  IF n1 = 0
  THEN [err |-> FirstEmptyError, value |-> None, remainder |-> 0, total |-> 0,
        n1 |-> n1, n2 |-> n2]
  ELSE IF n2 = 0
  THEN [err |-> SecondEmptyError, value |-> None, remainder |-> 0, total |-> 0,
        n1 |-> n1, n2 |-> n2]
  ELSE HistogramDistance_result(n1, n2, HistogramDistance_loop(hist1, hist2, 1, Len(hist1), n1, n2,
                                   [remainder |-> 0, total |-> 0]))

\* HistogramDistance(hist1, hist2)
HistogramDistance(hist1, hist2) ==
  IF Len(hist1) # Len(hist2)
  THEN [err |-> SizesError, value |-> None, remainder |-> 0, total |-> 0, n1 |-> 0, n2 |-> 0]
  ELSE HistogramDistance_summed(hist1, hist2, Sum(hist1), Sum(hist2))

\* ---------------------------------------------------------- ColorHistogram
\* ColorHistogram.__new__
ColorHistogram_new(r, g, b, default_color) ==
  [r |-> r, g |-> g, b |-> b, default_color |-> default_color]

\* self[i], i counted from 1
Channel(h, i) == CASE i = 1 -> h.r [] i = 2 -> h.g [] OTHER -> h.b

NoDataError == "ValueError: Histogram has no data and no default color."

\* The substitution of Distance taking the default colour's red value for
\* every channel
Distance_hist_red(h, i) ==
  IF Sum(Channel(h, i)) # 0 THEN [err |-> "", hist |-> Channel(h, i)]
  ELSE IF h.default_color = None THEN [err |-> NoDataError, hist |-> None]
  ELSE [err |-> "",
        hist |-> [j \in 1..Buckets |-> IF j = h.default_color[1] + 1 THEN 1 ELSE 0]]

\* The count sequence Distance takes for channel i of h: the channel, or for
\* a channel with no data one pixel at the default colour's value.
Distance_hist(h, i) ==
  IF Sum(Channel(h, i)) # 0 THEN [err |-> "", hist |-> Channel(h, i)]
  ELSE IF h.default_color = None THEN [err |-> NoDataError, hist |-> None]
  ELSE [err |-> "",
        hist |-> [j \in 1..Buckets |-> IF j = h.default_color[i] + 1 THEN 1 ELSE 0]]

\* The loop of Distance from channel i on: total the sum so far, used the
\* pairs of count sequences compared so far.
RECURSIVE Distance_from(_, _, _, _, _)
RECURSIVE Distance_added(_, _, _, _, _, _, _, _)
RECURSIVE Distance_paired(_, _, _, _, _, _, _)
Distance_added(self, other, i, total, used, hist1, hist2, d) ==
  IF d.err # ""
  THEN [err |-> d.err, value |-> None, used |-> Append(used, <<hist1, hist2>>)]
  ELSE Distance_from(self, other, i + 1, Float_add(total, d.value),
                     Append(used, <<hist1, hist2>>))

Distance_paired(self, other, i, total, used, h1, h2) ==
  IF h1.err # "" THEN [err |-> h1.err, value |-> None, used |-> used]
  ELSE IF h2.err # "" THEN [err |-> h2.err, value |-> None, used |-> used]
  ELSE Distance_added(self, other, i, total, used, h1.hist, h2.hist,
                      HistogramDistance(h1.hist, h2.hist))

Distance_from(self, other, i, total, used) ==
  IF i > 3 THEN [err |-> "", value |-> total, used |-> used]
  ELSE Distance_paired(self, other, i, total, used,
                       Distance_hist(self, i), Distance_hist(other, i))

\* ColorHistogram.Distance(other)
ColorHistogram_Distance(self, other) == Distance_from(self, other, 1, Float_zero, <<>>)

\* ------------------------------------------------------------------- state
VARIABLES
  bitmap,         \* the Bitmap: its fields _bpp, _width, _height, _pixels, _crop_box
  tools,          \* the _BitmapTools instance a caller holds until its next Bitmap
                  \* call: <<>> or <<instance>>
  chans,          \* the _BitmapTools instances the last Bitmap method created
  ret,            \* the last call: its name, noted arguments, error raised, value
                  \* returned, and what a claim compares the value with
  orig,           \* the Bitmap as constructed
  acc,            \* <<sum of left, sum of top, how many>> of the accepted Crop calls
                  \* since construction
  run,            \* <<sum of left, sum of top, last width, last height, how many>> of the
                  \* accepted Crop calls since no crop was pending, or None
  crop_requests,  \* CROP_PIXELS requests the pixels property sent since the last accepted Crop
  crop_raised,    \* how many of them raised
  faults,         \* CROP_PIXELS requests of the pixels property the engine did not answer in full
  exact,          \* every materialization so far stored exactly the boxed sub-rectangle
  ncalls          \* calls made so far

vars == <<bitmap, tools, chans, ret, orig, acc, run, crop_requests, crop_raised, faults, exact,
          ncalls>>

\* ------------------------------------------------------------------ inputs
\* A buffer of n bytes, all different: byte i holds i.
Ramp(n) == [i \in 1..n |-> i - 1]

\* The Ramp with its last byte replaced.
Dented(n) == [Ramp(n) EXCEPT ![n] = 255]

Lefts == -1..(MaxWidth - 1)
Tops == -1..(MaxHeight - 1)
Widths == -1..MaxWidth
Heights == 1..MaxHeight
Tolerances == {0, 1}

\* The engine's answers to CROP_PIXELS
CropResponses == {"ok", "empty", "short1"}

\* The bitmaps IsEqual is given as `other`: a constructed Bitmap whose buffer
\* is a Ramp or a Ramp with its last byte changed, with no crop pending or
\* with the accepted crop to its first or to its last pixel pending.
Constructed ==
  UNION {{Bitmap_init(bpp, w, h, px) : px \in {Ramp(bpp * w * h), Dented(bpp * w * h)}} :
         bpp \in {3, 4}, w \in {1, MaxWidth}, h \in {1, MaxHeight}}

OtherBitmaps ==
  Constructed \cup
  UNION {{Bitmap_Crop(b, 0, 0, 1, 1).bitmap,
          Bitmap_Crop(b, b._width - 1, b._height - 1, 1, 1).bitmap} :
         b \in {c \in Constructed : c._width = MaxWidth /\ c._height = MaxHeight}}

\* -------------------------------------------------------------------- Init
\* A successfully constructed Bitmap; nobody holds a channel yet.
Init ==
  /\ \E bpp \in {3, 4} :
       /\ Bitmap_init_ok(bpp, MaxWidth, MaxHeight, Ramp(bpp * MaxWidth * MaxHeight))
       /\ bitmap = Bitmap_init(bpp, MaxWidth, MaxHeight, Ramp(bpp * MaxWidth * MaxHeight))
  /\ orig = bitmap
  /\ tools = <<>>
  /\ chans = <<>>
  /\ ret = [op |-> "Bitmap", args |-> <<>>, err |-> "", value |-> "self", check |-> <<>>]
  /\ acc = <<0, 0, 0>>
  /\ run = None
  /\ crop_requests = 0
  /\ crop_raised = 0
  /\ faults = 0
  /\ exact = TRUE
  /\ ncalls = 0

\* ----------------------------------------------------------------- actions
\* The caller makes one more call.
Call == ncalls < MaxCalls /\ ncalls' = ncalls + 1

\* The pixels property sent a CROP_PIXELS request for the held Bitmap.
SentCrop(r) == bitmap._crop_box # None /\ Len(r.chans) > 0

\* The stored buffer is the boxed sub-rectangle of what channel t was sent.
Exact(t, b) == b._pixels = Engine_CropPixels(t.dims, t.pixels)

\* The engine's answer to a read of the held Bitmap: consulted only when a
\* crop is pending, and failing at most MaxFaults times.
EngineMay(resp) ==
  /\ bitmap._crop_box = None => resp = "ok"
  /\ resp # "ok" => faults < MaxFaults

\* The state after a Bitmap method returned or raised: r is what the method
\* operator yields, resp the engine's answer to the read of the held Bitmap.
AfterCall(op, args, r, resp, check) ==
  /\ Call
  /\ bitmap' = r.bitmap
  /\ chans' = r.chans
  /\ ret' = [op |-> op, args |-> args, err |-> r.err, value |-> r.value, check |-> check]
  /\ crop_requests' = IF SentCrop(r) THEN crop_requests + 1 ELSE crop_requests
  /\ crop_raised' = IF SentCrop(r) /\ r.chans[1].answered = "empty"
                    THEN crop_raised + 1 ELSE crop_raised
  /\ faults' = IF SentCrop(r) /\ resp # "ok" THEN faults + 1 ELSE faults
  /\ run' = IF r.bitmap._crop_box = None THEN None ELSE run
  /\ exact' = (exact /\ (bitmap._crop_box # None /\ r.bitmap._crop_box = None
                           => Exact(r.chans[1], r.bitmap)))
  /\ tools' = <<>>
  /\ UNCHANGED <<orig, acc>>

\* check: whether the box is invalid for the logical size reported before
\* the call.
Crop(left, top, width, height) ==
  LET r == Bitmap_Crop(bitmap, left, top, width, height)
  IN  /\ Call
      /\ bitmap' = r.bitmap
      /\ chans' = r.chans
      /\ ret' = [op |-> "Crop", args |-> <<>>, err |-> r.err, value |-> r.value,
                 check |-> <<\/ left < 0 \/ top < 0
                             \/ left + width > Bitmap_width(bitmap)
                             \/ top + height > Bitmap_height(bitmap)>>]
      /\ acc' = IF r.err = "" THEN <<acc[1] + left, acc[2] + top, acc[3] + 1>> ELSE acc
      /\ run' = IF r.err # "" THEN run
                ELSE IF run = None THEN <<left, top, width, height, 1>>
                ELSE <<run[1] + left, run[2] + top, width, height, run[5] + 1>>
      /\ crop_requests' = IF r.err = "" THEN 0 ELSE crop_requests
      /\ crop_raised' = IF r.err = "" THEN 0 ELSE crop_raised
      /\ tools' = <<>>
      /\ UNCHANGED <<orig, faults, exact>>

ReadPixels(resp) ==
  /\ EngineMay(resp)
  /\ AfterCall("pixels", <<>>, Bitmap_pixels(bitmap, resp), resp, <<>>)

GetPixelColor(x, y, resp) ==
  /\ EngineMay(resp)
  /\ AfterCall("GetPixelColor", <<x, y>>, Bitmap_GetPixelColor(bitmap, x, y, resp), resp, <<>>)

\* What a claim compares the result r of IsEqual with: whether the
\* byte-for-byte path decided, what the pixel loop makes of the two bitmaps
\* as the call left them, whether other's buffer is exact, and whether other
\* had a crop pending.
IsEqual_check(other, tolerance, r) ==
  IF /\ tolerance = 0 /\ bitmap._bpp = other._bpp
     /\ Bitmap_width(bitmap) = Bitmap_width(other)
     /\ Bitmap_height(bitmap) = Bitmap_height(other)
     /\ r.err = ""
  THEN <<"fast", IsEqual_scan(r.bitmap, r.other, 0, 0),
         other._crop_box = None \/ Exact(Bitmap_PrepareTools(other), r.other),
         other._crop_box # None>>
  ELSE <<"scan">>

\* The state after IsEqual returned or raised r.
IsEqualReturned(other, tolerance, r, resp) ==
  AfterCall("IsEqual", <<tolerance>>, r, resp, IsEqual_check(other, tolerance, r))

IsEqual(other, tolerance, resp, resp_other) ==
  /\ EngineMay(resp)
  /\ other._crop_box = None => resp_other = "ok"
  /\ IsEqualReturned(other, tolerance,
                     Bitmap_IsEqual(bitmap, other, tolerance, resp, resp_other), resp)

ColorHistogram(ignore_color, tolerance, resp) ==
  AfterCall("ColorHistogram", <<>>,
            Bitmap_ColorHistogram(bitmap, ignore_color, tolerance, resp), "ok", <<>>)

GetBoundingBox(color, tolerance, resp, answer) ==
  AfterCall("GetBoundingBox", <<>>,
            Bitmap_GetBoundingBox(bitmap, color, tolerance, resp, answer), "ok", <<>>)

\* A caller takes a channel from _PrepareTools() and keeps it.
PrepareTools ==
  /\ Call
  /\ tools' = <<Bitmap_PrepareTools(bitmap)>>
  /\ chans' = <<>>
  /\ ret' = [op |-> "_PrepareTools", args |-> <<>>, err |-> "", value |-> "tools", check |-> <<>>]
  /\ UNCHANGED <<bitmap, orig, acc, run, crop_requests, crop_raised, faults, exact>>

\* The state after a command on the held channel returned or raised r.
ToolsReturned(code, r) ==
  /\ tools' = <<r.tools>>
  /\ ret' = [op |-> "tools.command", args |-> <<code>>, err |-> r.err,
             value |-> r.value, check |-> <<>>]
  /\ chans' = <<>>
  /\ UNCHANGED <<bitmap, orig, acc, run, crop_requests, crop_raised, faults, exact>>

\* The caller issues a command on the channel it holds.
ToolsCommand(code, resp) ==
  /\ tools # <<>>
  /\ Call
  /\ ToolsReturned(code,
       CASE code = CROP_PIXELS -> BitmapTools_CropPixels(tools[1], resp)
         [] code = HISTOGRAM -> BitmapTools_Histogram(tools[1], None, 0, resp)
         [] OTHER -> BitmapTools_BoundingBox(tools[1], WHITE, 0, resp, <<0, 0, 1, 1, 1>>))

Crops ==
  \E left \in Lefts, top \in Tops, width \in Widths, height \in Heights :
    Crop(left, top, width, height)

\* The bitmap's geometry and its reads.
Next ==
  \/ Crops
  \/ \E resp \in CropResponses : ReadPixels(resp)
  \/ \E x \in 0..(MaxWidth - 1), y \in 0..(MaxHeight - 1), resp \in CropResponses :
       GetPixelColor(x, y, resp)

Spec == Init /\ [][Next]_vars

\* The bitmap and the operations it delegates to the engine.
NextTools ==
  \/ Crops
  \/ \E resp \in CropResponses : ReadPixels(resp)
  \/ \E ignore_color \in {None, WHITE}, resp \in Responses :
       ColorHistogram(ignore_color, 0, resp)
  \/ \E resp \in Responses, answer \in BoxAnswers :
       GetBoundingBox(WHITE, 0, resp, answer)
  \/ PrepareTools
  \/ \E code \in {CROP_PIXELS, HISTOGRAM, BOUNDING_BOX}, resp \in {"ok", "empty"} :
       ToolsCommand(code, resp)

SpecTools == Init /\ [][NextTools]_vars

\* The bitmap compared with another.
NextCompare ==
  \/ Crops
  \/ \E other \in OtherBitmaps, tolerance \in Tolerances, resp \in CropResponses,
        resp_other \in CropResponses :
       IsEqual(other, tolerance, resp, resp_other)

SpecCompare == Init /\ [][NextCompare]_vars

\* The colour of the logical pixel (x, y) of a bitmap as its fields stand,
\* read from the backing buffer through the pending crop box; transparent
\* black where the logical size does not contain (x, y).
ColorAt(bm, x, y) ==
  LET left == IF bm._crop_box # None THEN bm._crop_box[1] ELSE 0
      top == IF bm._crop_box # None THEN bm._crop_box[2] ELSE 0
      base == bm._bpp * ((top + y) * bm._width + left + x)
  IN  IF x >= Bitmap_width(bm) \/ y >= Bitmap_height(bm) THEN RgbaColor(0, 0, 0, 0)
      ELSE RgbaColor(bm._pixels[base + 1], bm._pixels[base + 2], bm._pixels[base + 3],
                     IF bm._bpp = 4 THEN bm._pixels[base + 4] ELSE 255)

\* What a claim compares the result of Diff with: the output width and
\* height as the maxima of the logical sizes before the call, and the
\* channel differences of the colours the two bitmaps held then.
Diff_check(b, other) ==
  LET w == Max(Bitmap_width(b), Bitmap_width(other))
      h == Max(Bitmap_height(b), Bitmap_height(other))
  IN  <<w, h,
        [i \in 1..(3 * w * h) |->
           LET x == ((i - 1) \div 3) % w
               y == ((i - 1) \div 3) \div w
           IN  Abs(ColorAt(b, x, y)[((i - 1) % 3) + 1]
                     - ColorAt(other, x, y)[((i - 1) % 3) + 1])]>>

\* The state after Diff returned or raised r.
DiffReturned(op, r, check) ==
  /\ Call
  /\ bitmap' = r.bitmap
  /\ chans' = r.chans
  /\ ret' = [op |-> op, args |-> <<>>, err |-> r.err, value |-> r.value, check |-> check]
  /\ run' = IF r.bitmap._crop_box = None THEN None ELSE run
  /\ exact' = (exact /\ (bitmap._crop_box # None /\ r.bitmap._crop_box = None
                           => Exact(r.chans[1], r.bitmap)))
  /\ faults' = IF bitmap._crop_box # None /\ r.bitmap._crop_box # None /\ r.chans # <<>>
               THEN faults + 1 ELSE faults
  /\ tools' = <<>>
  /\ UNCHANGED <<orig, acc, crop_requests, crop_raised>>

Diff(other, resp, resp_other) ==
  /\ EngineMay(resp)
  /\ other._crop_box = None => resp_other = "ok"
  /\ DiffReturned("Diff", Bitmap_Diff(bitmap, other, resp, resp_other),
                  Diff_check(bitmap, other))

DiffSelf(resp) ==
  /\ EngineMay(resp)
  /\ DiffReturned("Diff(self)", Bitmap_Diff_self(bitmap, resp), Diff_check(bitmap, bitmap))

\* The bitmap and its difference images.
NextDiff ==
  \/ Crops
  \/ \E other \in OtherBitmaps, resp \in {"ok", "empty"}, resp_other \in {"ok", "empty"} :
       Diff(other, resp, resp_other)
  \/ \E resp \in {"ok", "empty"} : DiffSelf(resp)

SpecDiff == Init /\ [][NextDiff]_vars

\* The count sequences HistogramDistance is given.
Histograms == UNION {[1..n -> 0..MaxCount] : n \in 1..HistLen}

\* A count sequence of one channel: the counts given, then empty buckets.
Pad(counts) == counts \o ZeroBits(Buckets - Len(counts))

\* The ColorHistograms Distance is given: channels with and without data,
\* with and without a default colour.
ColorHistograms ==
  {ColorHistogram_new(r, g, b, default_color) :
     r \in {Pad(<<>>), Pad(<<0, MaxCount>>), Pad(<<MaxCount - 1, MaxCount>>),
            Pad(<<MaxCount, 0>>)},
     g \in {Pad(<<>>), Pad(<<1>>)},
     b \in {Pad(<<>>), Pad(<<0, 1>>)},
     default_color \in {None, RgbaColor(0, 1, 255, 255)}}

\* A Bitmap as in Init, and the two arguments of a call of HistogramDistance
\* or of ColorHistogram.Distance about to be made.
InitHist ==
  /\ bitmap = Bitmap_init(3, MaxWidth, MaxHeight, Ramp(3 * MaxWidth * MaxHeight))
  /\ orig = bitmap
  /\ tools = <<>>
  /\ chans = <<>>
  /\ \/ \E hist1 \in Histograms, hist2 \in Histograms :
          ret = [op |-> "HistogramDistance?", args |-> <<hist1, hist2>>, err |-> "",
                 value |-> None, check |-> <<>>]
     \/ \E self \in ColorHistograms, other \in ColorHistograms :
          ret = [op |-> "Distance?", args |-> <<self, other>>, err |-> "",
                 value |-> None, check |-> <<>>]
  /\ acc = <<0, 0, 0>>
  /\ run = None
  /\ crop_requests = 0
  /\ crop_raised = 0
  /\ faults = 0
  /\ exact = TRUE
  /\ ncalls = 0

\* The state after HistogramDistance returned or raised d.  check: the call
\* itself and the call with the arguments swapped.
HistogramDistanceReturned(d, swapped) ==
  /\ ret' = [op |-> "HistogramDistance", args |-> ret.args, err |-> d.err,
             value |-> d.value, check |-> <<d, swapped>>]
  /\ UNCHANGED <<bitmap, tools, chans, orig, acc, run, crop_requests, crop_raised, faults,
                 exact, ncalls>>

HistogramDistanceCall ==
  /\ ret.op = "HistogramDistance?"
  /\ HistogramDistanceReturned(HistogramDistance(ret.args[1], ret.args[2]),
                               HistogramDistance(ret.args[2], ret.args[1]))

\* The state after Distance returned or raised d.  check: the call itself
\* and the call with self and other swapped.
DistanceReturned(d, swapped) ==
  /\ ret' = [op |-> "Distance", args |-> ret.args, err |-> d.err,
             value |-> d.value, check |-> <<d, swapped>>]
  /\ UNCHANGED <<bitmap, tools, chans, orig, acc, run, crop_requests, crop_raised, faults,
                 exact, ncalls>>

DistanceCall ==
  /\ ret.op = "Distance?"
  /\ DistanceReturned(ColorHistogram_Distance(ret.args[1], ret.args[2]),
                      ColorHistogram_Distance(ret.args[2], ret.args[1]))

\* The histograms and their distances.
NextHist == HistogramDistanceCall \/ DistanceCall

SpecHist == InitHist /\ [][NextHist]_vars

\* ------------------------------------------------------------------ claims
\* C1: a Crop whose box has left < 0, top < 0, left+width beyond the logical
\* width or top+height beyond the logical height raises the invalid-dimensions
\* error and leaves the crop box, the backing width and height, the pixel
\* buffer and so the logical size as they were, a crop pending or not.
C1_InvalidCropRaises ==
  [][(ret'.op = "Crop" /\ ret'.check[1])
       => /\ ret'.err = "ValueError"
          /\ bitmap' = bitmap
          /\ Bitmap_width(bitmap') = Bitmap_width(bitmap)
          /\ Bitmap_height(bitmap') = Bitmap_height(bitmap)]_vars

\* An invalid Crop was refused while a crop was pending.
C1_Witness ==
  /\ ret.op = "Crop" /\ ret.check[1] /\ ret.err = "ValueError"
  /\ bitmap._crop_box # None

\* The colour the bitmap had at (x, y) when constructed.
OrigColor(x, y) ==
  LET base == orig._bpp * (y * orig._width + x)
  IN  <<orig._pixels[base + 1], orig._pixels[base + 2], orig._pixels[base + 3],
        IF orig._bpp = 4 THEN orig._pixels[base + 4] ELSE 255>>

\* C2: after accepted Crop calls on a bitmap with no crop pending, the pending
\* box is (sum of the lefts, sum of the tops, last width, last height); with
\* the engine returning the boxed sub-rectangle, GetPixelColor(x, y) inside
\* the logical size returns the colour the constructed bitmap had at the
\* summed offset plus (x, y); and a read after a full-size Crop(0,0,w,h) is
\* the un-cropped buffer.
C2_CropComposes ==
  /\ bitmap._crop_box # None
       => run # None /\ bitmap._crop_box = SubSeq(run, 1, 4)
  /\ (/\ ret.op = "GetPixelColor" /\ exact /\ ret.err # "Exception"
      /\ ret.args[1] < Bitmap_width(bitmap) /\ ret.args[2] < Bitmap_height(bitmap))
       => /\ ret.err = ""
          /\ ret.value = OrigColor(acc[1] + ret.args[1], acc[2] + ret.args[2])
  /\ (/\ ret.op = "pixels" /\ exact /\ ret.err = "" /\ acc[1] = 0 /\ acc[2] = 0
      /\ Bitmap_width(bitmap) = orig._width /\ Bitmap_height(bitmap) = orig._height)
       => ret.value = orig._pixels

\* After two accepted Crop calls, the second composed onto the first, a pixel
\* away from the constructed origin was read.
C2_Witness ==
  /\ ret.op = "GetPixelColor" /\ ret.err = "" /\ exact
  /\ acc = <<1, 1, 2>>
  /\ ret.args[1] < Bitmap_width(bitmap) /\ ret.args[2] < Bitmap_height(bitmap)
  /\ chans # <<>>

\* C3 as stated: ColorHistogram and GetBoundingBox materialize a pending crop
\* before they delegate, so that the request carries the full box of the
\* cropped buffer and no crop is pending after the call.
C3_Original ==
  ret.op \in {"ColorHistogram", "GetBoundingBox"}
    => /\ bitmap._crop_box = None
       /\ chans[1].dims = <<bitmap._bpp, bitmap._width, bitmap._height,
                            0, 0, bitmap._width, bitmap._height>>

\* C3, amended: ColorHistogram and GetBoundingBox do not materialize: they
\* leave the crop box, the pixel buffer and the backing width and height as
\* they were, and send on one new channel the un-cropped buffer with the
\* pending crop box (the full box when none is pending) in the geometry.
C3_DelegatesWithoutMaterializing ==
  [][(ret'.op \in {"ColorHistogram", "GetBoundingBox"})
       => /\ bitmap' = bitmap
          /\ Len(chans') = 1
          /\ chans'[1].pixels = bitmap._pixels
          /\ chans'[1].dims =
               <<bitmap._bpp, bitmap._width, bitmap._height>>
                 \o (IF bitmap._crop_box # None THEN bitmap._crop_box
                     ELSE <<0, 0, bitmap._width, bitmap._height>>)]_vars

\* A histogram was computed and the crop is still pending.
C3_Witness ==
  /\ ret.op = "ColorHistogram" /\ ret.err = ""
  /\ bitmap._crop_box # None
  /\ SubSeq(chans[1].dims, 4, 7) = bitmap._crop_box

\* C4: whenever no crop is pending (the engine returning the boxed
\* sub-rectangle), bpp * width * height is the length of the pixel buffer.
C4_SizeMatchesBuffer ==
  (exact /\ bitmap._crop_box = None)
    => bitmap._bpp * bitmap._width * bitmap._height = Len(bitmap._pixels)

\* C5: the logical width and height are strictly positive in every state.
C5_PositiveSize == Bitmap_width(bitmap) > 0 /\ Bitmap_height(bitmap) > 0

FullLog ==
  <<"write_dims", "write_pixels", "write_cmd", "close_stdin", "read_len", "read_payload">>

FailedLog ==
  <<"write_dims", "write_pixels", "write_cmd", "close_stdin", "read_len", "read_stderr">>

\* C6 as stated: every channel a Bitmap operation creates carries exactly the
\* six steps, ending with the read of the payload, and one command frame.
C6_Original ==
  \A i \in 1..Len(chans) : chans[i].log = FullLog /\ Len(chans[i].frames) = 1

\* C6, amended: every delegated Bitmap operation creates its own channel and
\* on it writes the geometry, writes the pixels, writes one command frame,
\* closes the write side and reads the length; it then reads the payload if
\* the engine delivered a length, and otherwise reads the error stream and
\* raises.  No channel, the one a caller holds included, ever carries more
\* than one command frame.
C6_OneCommandPerChannel ==
  /\ \A i \in 1..Len(chans) :
       /\ chans[i].log \in {FullLog, FailedLog}
       /\ chans[i].log = FailedLog <=> chans[i].answered = "empty"
       /\ Len(chans[i].frames) = 1
  /\ ret.op \in {"ColorHistogram", "GetBoundingBox"} => Len(chans) = 1
  /\ (ret.op = "pixels" /\ ret.err # "") => Len(chans) = 1
  /\ tools # <<>>
       => /\ Len(tools[1].frames) <= 1
          /\ tools[1].log \in {<<"write_dims", "write_pixels">>, FullLog, FailedLog}

\* A read materialized a crop on a channel of its own, in the six steps.
C6_Witness ==
  /\ ret.op = "pixels" /\ ret.err = ""
  /\ Len(chans) = 1 /\ chans[1].log = FullLog /\ chans[1].frames = <<<<CROP_PIXELS>>>>

\* C7: a second command on a channel that has run one fails with the reuse
\* error before anything more is written, whether the first command
\* succeeded or failed.
C7_ReuseFails ==
  [][(ret'.op = "tools.command" /\ tools # <<>> /\ Len(tools[1].frames) >= 1)
       => ret'.err = ReuseError /\ tools' = tools]_vars

\* A second command was refused on a channel whose first command had failed.
C7_Witness ==
  /\ ret.op = "tools.command" /\ ret.err = ReuseError
  /\ tools[1].answered = "empty" /\ Len(tools[1].frames) = 1

\* C8 as stated, its last part: each accepted run of Crop calls causes at most
\* one CROP_PIXELS request.
C8_Original == crop_requests <= 1

\* C8, amended: once a read has materialized the pending crop, every further
\* read with no Crop in between returns the same buffer, leaves the bitmap as
\* it is and sends nothing; each accepted run of Crop calls causes at most
\* one CROP_PIXELS request that the engine answers with a length: every
\* request before it raised on an empty answer and left the crop pending.
C8_MaterializesOnce ==
  [][/\ (bitmap._crop_box = None /\ ret'.op \in {"pixels", "GetPixelColor"})
          => /\ bitmap' = bitmap
             /\ chans' = <<>>
             /\ ret'.op = "pixels" => ret'.value = bitmap._pixels
     /\ crop_requests' <= crop_raised' + 1
     /\ bitmap'._crop_box # None => crop_requests' = crop_raised']_vars

\* A read after the read that materialized the crop: no request was sent.
C8_Witness ==
  /\ ret.op = "pixels" /\ ret.err = "" /\ chans = <<>>
  /\ crop_requests = 1 /\ crop_raised = 0 /\ bitmap._crop_box = None

\* C9: when the engine delivers no length, or fewer payload bytes than the
\* length declares, the operation (crop materialization, ColorHistogram,
\* GetBoundingBox) fails instead of returning a result.
C9_FramingViolationFails ==
  \A i \in 1..Len(chans) : chans[i].answered \in {"empty", "short"} => ret.err # ""

\* C10: for two bitmaps of equal logical size and bpp (the engine returning
\* the boxed sub-rectangles), IsEqual with tolerance 0 returns what the scan
\* of every pixel with RgbaColor.IsEqual at tolerance 0 returns.
C10_BytesAgreeWithScan ==
  (ret.op = "IsEqual" /\ ret.check[1] = "fast" /\ exact /\ ret.check[3])
    => /\ ret.check[2] \in {"True", "False"}
       /\ ret.value = (ret.check[2] = "True")

\* Two bitmaps, both with a crop pending, were found different.
C10_Witness ==
  /\ ret.op = "IsEqual" /\ ret.check[1] = "fast" /\ exact /\ ret.check[3]
  /\ ret.check[4] /\ Len(chans) = 2 /\ ret.value = FALSE

\* C11: Diff produces a 3-channel grid whose width and height are the maxima
\* of the two logical widths and heights, each pixel holding the absolute
\* channel differences of the two colours at that place (a side that does
\* not contain the place counting as 0, 0, 0, 0); Diff of a bitmap against
\* itself is all zeros with the bitmap's own logical size.
C11_DiffGrid ==
  (ret.op \in {"Diff", "Diff(self)"} /\ exact /\ ret.err # "Exception")
    => /\ ret.err = ""
       /\ ret.value = Bitmap_init(3, ret.check[1], ret.check[2], ret.check[3])
       /\ ret.op = "Diff(self)"
            => /\ ret.value._width = Bitmap_width(bitmap)
               /\ ret.value._height = Bitmap_height(bitmap)
               /\ \A i \in 1..Len(ret.value._pixels) : ret.value._pixels[i] = 0

\* C12: the earth-mover distance is symmetric: for count sequences of equal
\* length and nonzero sums HistogramDistance(h1, h2) equals
\* HistogramDistance(h2, h1), the total and the divisors being the same up to
\* swapping, and ColorHistogram.Distance(a, b) equals Distance(b, a).
C12_DistanceSymmetric ==
  /\ (ret.op = "HistogramDistance" /\ ret.err = "")
       => /\ ret.check[2].err = ""
          /\ ret.check[2].total = ret.check[1].total
          /\ ret.check[2].n1 = ret.check[1].n2
          /\ ret.check[2].n2 = ret.check[1].n1
          /\ ret.check[2].value = ret.value
  /\ (ret.op = "Distance" /\ ret.err = "")
       => ret.check[2].err = "" /\ ret.check[2].value = ret.value

\* A channel of h has no data and h has no default colour.
NoFallback(h) == h.default_color = None /\ \E i \in 1..3 : Sum(Channel(h, i)) = 0

\* The count sequence the claim has Distance compare for channel i of h.
Replaced(h, i, hist) ==
  IF Sum(Channel(h, i)) # 0 THEN hist = Channel(h, i)
  ELSE /\ Len(hist) = Buckets
       /\ \A j \in 1..Buckets : hist[j] = IF j = h.default_color[i] + 1 THEN 1 ELSE 0

\* C13: Distance fails with the no-data error whenever a channel of either
\* histogram sums to zero and that histogram has no default colour; with a
\* default colour the channel is replaced by 256 buckets holding one count at
\* the default colour's value for the channel, and the distance is computed
\* without error.
C13_NoDataOrDefault ==
  ret.op = "Distance"
    => IF NoFallback(ret.args[1]) \/ NoFallback(ret.args[2])
       THEN ret.err = NoDataError
       ELSE /\ ret.err = ""
            /\ Len(ret.check[1].used) = 3
            /\ \A i \in 1..3 :
                 /\ Replaced(ret.args[1], i, ret.check[1].used[i][1])
                 /\ Replaced(ret.args[2], i, ret.check[1].used[i][2])

\* A distance was computed for a histogram whose green and blue channels had
\* no data, from its default colour.
C13_Witness ==
  /\ ret.op = "Distance" /\ ret.err = ""
  /\ Sum(ret.args[1].g) = 0 /\ Sum(ret.args[1].b) = 0 /\ Sum(ret.args[1].r) # 0
  /\ ret.args[1].default_color # None
  /\ ret.value # Float_zero

\* C14: for count sequences of equal length and nonzero sums the remainder
\* is 0 after the last bucket and the left-over assertion does not fail.
C14_NoLeftOver ==
  (/\ ret.op = "HistogramDistance"
   /\ Len(ret.args[1]) = Len(ret.args[2])
   /\ Sum(ret.args[1]) # 0 /\ Sum(ret.args[2]) # 0)
    => ret.err = "" /\ ret.check[1].remainder = 0

\* A distance between sequences of different sums, mass moved between buckets.
C14_Witness ==
  /\ ret.op = "HistogramDistance" /\ ret.err = ""
  /\ ret.check[1].n1 # ret.check[1].n2 /\ ret.check[1].total > 0

\* C15: an accepted Crop changes only the pending crop box: the pixel
\* buffer, the backing width and height and bpp stay as they were, nothing
\* is sent to the engine, and the Bitmap it was called on is returned.
C15_CropOnlySetsBox ==
  [][(ncalls' # ncalls /\ ret'.op = "Crop" /\ ret'.err = "")
       => /\ bitmap'._pixels = bitmap._pixels
          /\ bitmap'._width = bitmap._width
          /\ bitmap'._height = bitmap._height
          /\ bitmap'._bpp = bitmap._bpp
          /\ bitmap'._crop_box # None
          /\ chans' = <<>>
          /\ ret'.value = "self"]_vars

\* A Crop was accepted on a bitmap whose earlier crop a read had
\* materialized: the backing size is the first crop's, the box the second's.
C15_Witness ==
  /\ ret.op = "Crop" /\ ret.err = "" /\ acc[3] = 2 /\ run[5] = 1
  /\ bitmap._width < orig._width
  /\ bitmap._crop_box[3] < bitmap._width

\* The channels of the last call and the one a caller holds.
Channels == {chans[i] : i \in 1..Len(chans)} \cup {tools[i] : i \in 1..Len(tools)}

\* C16: every request sent to the engine describes a consistent geometry:
\* bpp * width * height is the number of pixel bytes sent, the box lies
\* within the width and height, and the box is (0, 0, width, height) when no
\* crop is pending.
C16_ConsistentGeometry ==
  \A t \in Channels :
    /\ t.dims[1] * t.dims[2] * t.dims[3] = Len(t.pixels)
    /\ t.dims[4] >= 0 /\ t.dims[5] >= 0
    /\ t.dims[4] + t.dims[6] <= t.dims[2]
    /\ t.dims[5] + t.dims[7] <= t.dims[3]
    /\ (/\ ret.op \in {"ColorHistogram", "GetBoundingBox", "_PrepareTools", "tools.command"}
        /\ bitmap._crop_box = None)
         => SubSeq(t.dims, 4, 7) = <<0, 0, t.dims[2], t.dims[3]>>

\* A read of the pixels (directly or by GetPixelColor) of a bitmap with a
\* crop pending has just returned or raised.
ReadWithCropPending ==
  /\ ncalls' # ncalls
  /\ ret'.op \in {"pixels", "GetPixelColor"}
  /\ bitmap._crop_box # None

\* C17: a read that materializes the pending crop leaves the logical width
\* and height as they were reported before it; after it the backing width
\* and height are the former crop box's and no crop is pending.
C17_SizeKeptByMaterializing ==
  [][(ReadWithCropPending /\ chans'[1].answered \in {"full", "short"})
       => /\ Bitmap_width(bitmap') = Bitmap_width(bitmap)
          /\ Bitmap_height(bitmap') = Bitmap_height(bitmap)
          /\ bitmap'._width = bitmap._crop_box[3]
          /\ bitmap'._height = bitmap._crop_box[4]
          /\ bitmap'._crop_box = None]_vars

\* A read materialized a crop to a box wider than high.
C17_Witness ==
  /\ ret.op = "pixels" /\ ret.err = "" /\ Len(chans) = 1
  /\ bitmap._crop_box = None
  /\ bitmap._width = MaxWidth /\ bitmap._height = 1
  /\ chans[1].dims[6] = MaxWidth /\ chans[1].dims[7] = 1

\* C18: when the engine fails during materialization the read raises and
\* leaves the Bitmap as it was, the crop box pending and the buffer and the
\* backing size un-cropped; every read with a crop pending, one after such a
\* failure included, sends its request on a channel of its own, made from
\* the bitmap as it is.
C18_FailedMaterializationKeepsCrop ==
  [][ReadWithCropPending
       => /\ Len(chans') = 1
          /\ chans'[1].dims = <<bitmap._bpp, bitmap._width, bitmap._height>> \o bitmap._crop_box
          /\ chans'[1].pixels = bitmap._pixels
          /\ chans'[1].frames = <<<<CROP_PIXELS>>>>
          /\ chans'[1].log \in {FullLog, FailedLog}
          /\ chans'[1].answered = "empty"
               => /\ ret'.err = "Exception"
                  /\ bitmap' = bitmap]_vars

\* After a read that failed, a second read materialized the crop.
C18_Witness ==
  /\ ret.op = "pixels" /\ ret.err = "" /\ bitmap._crop_box = None
  /\ crop_requests = 2 /\ crop_raised = 1
  /\ chans[1].log = FullLog

====
